---- MODULE Spec2Model ----
(***************************************************************************)
(* fn_num_types: an abstract domain for IEEE-754 floating-point values.    *)
(* A caller builds width-tagged possibility records, calls one transfer    *)
(* function, and receives the record describing the result.                *)
(*                                                                         *)
(*   src/src/utils.rs  Possible, FloatPossibilities (five fields),         *)
(*                     FnArgFloat, return_fp, return_fp2                   *)
(*   src/src/add.rs    add                                                 *)
(*   src/src/lib.rs    Possible, Range, FloatPossibilities (range based),  *)
(*                     FnArg, core::ops (the unary transfer functions)     *)
(*   src/tests/core.rs the concrete values and operations used as ground   *)
(*                     truth                                               *)
(***************************************************************************)
EXTENDS Naturals, Sequences, FiniteSets

VARIABLES
    pc,     \* "call": arguments built, "done": returned, "panicked": aborted
    op,     \* name of the function that was called ("" before the call)
    args,   \* the arguments of the call, a sequence of one, two or three values
    ret,    \* the value returned (NoReturn before the call and after a panic)
    ran     \* TRUE once the field-computation closure of the call has run

vars == <<pc, op, args, ret, ran>>

(***************************************************************************)
(* utils.rs: the possibility lattice                                       *)
(***************************************************************************)

\* enum Possible { No, ShouldNot, Should, Yes }
Possible == {"No", "ShouldNot", "Should", "Yes"}

\* variant: the variants declared in the order Yes, Should, ShouldNot, No
Discriminant_reversed(p) ==
    CASE p = "Yes" -> 0
      [] p = "Should" -> 1
      [] p = "ShouldNot" -> 2
      [] p = "No" -> 3

\* #[derive(Ord, PartialOrd)]: variants compare by declaration order
Discriminant(p) ==
    CASE p = "No" -> 0
      [] p = "ShouldNot" -> 1
      [] p = "Should" -> 2
      [] p = "Yes" -> 3

\* std::cmp::max(a, b): b unless a is strictly greater
any(a, b) == IF Discriminant(a) > Discriminant(b) THEN a ELSE b

\* impl BitOr for Possible: std::cmp::max(self, rhs)
BitOr(self, rhs) == IF Discriminant(self) > Discriminant(rhs) THEN self ELSE rhs

\* impl BitAnd for Possible: std::cmp::min(self, rhs): self unless rhs is
\* strictly smaller
BitAnd(self, rhs) == IF Discriminant(rhs) < Discriminant(self) THEN rhs ELSE self

(***************************************************************************)
(* Concrete floating-point values, by class (tests/core.rs)                *)
(***************************************************************************)

\* get_test_values!: NaN, -inf, negative finite, -0.0, 0.0, positive finite, +inf
Values == {"NaN", "NegInf", "NegFinite", "NegZero", "PosZero", "PosFinite", "PosInf"}

is_nan(v) == v = "NaN"
is_infinite(v) == v \in {"NegInf", "PosInf"}
is_zero(v) == v \in {"NegZero", "PosZero"}
is_sign_positive(v) == v \in {"PosZero", "PosFinite", "PosInf"}
is_sign_negative(v) == v \in {"NegZero", "NegFinite", "NegInf"}

(***************************************************************************)
(* utils.rs: FloatPossibilities                                            *)
(***************************************************************************)

FP == [nan : Possible, zero : Possible, infinite : Possible,
       positive : Possible, negative : Possible]

\* variant: a NaN is permitted only when nan is Yes
accept_nan_strict(self, value) ==
    IF is_nan(value) THEN self.nan = "Yes"
    ELSE IF is_infinite(value) /\ self.infinite = "No" THEN FALSE
    ELSE IF is_zero(value) /\ self.zero = "No" THEN FALSE
    ELSE IF is_sign_positive(value) /\ self.positive = "No" THEN FALSE
    ELSE IF is_sign_negative(value) /\ self.negative = "No" THEN FALSE
    ELSE TRUE

\* FloatPossibilities::accept
accept(self, value) ==
    IF is_nan(value) THEN self.nan # "No"
    ELSE IF is_infinite(value) /\ self.infinite = "No" THEN FALSE
    ELSE IF is_zero(value) /\ self.zero = "No" THEN FALSE
    ELSE IF is_sign_positive(value) /\ self.positive = "No" THEN FALSE
    ELSE IF is_sign_negative(value) /\ self.negative = "No" THEN FALSE
    ELSE TRUE

\* variant: the negative field joined with the wrong field of self
union_wrong_field(self, rhs) ==
    [nan      |-> BitOr(self.nan, rhs.nan),
     zero     |-> BitOr(self.zero, rhs.zero),
     infinite |-> BitOr(self.infinite, rhs.infinite),
     positive |-> BitOr(self.positive, rhs.positive),
     negative |-> BitOr(self.positive, rhs.negative)]

\* FloatPossibilities::union
union(self, rhs) ==
    [nan      |-> BitOr(self.nan, rhs.nan),
     zero     |-> BitOr(self.zero, rhs.zero),
     infinite |-> BitOr(self.infinite, rhs.infinite),
     positive |-> BitOr(self.positive, rhs.positive),
     negative |-> BitOr(self.negative, rhs.negative)]

\* tests/core.rs: const YESNO
YESNO == {"Yes", "No"}

\* tests/core.rs get_possibilities(): every record with fields Yes or No
get_possibilities ==
    [nan : YESNO, zero : YESNO, infinite : YESNO, positive : YESNO, negative : YESNO]

ZERO_POSSIBILITIES ==
    [nan |-> "No", zero |-> "Yes", infinite |-> "No", positive |-> "Yes", negative |-> "No"]

ZERO_NEG_POSSIBILITIES ==
    [nan |-> "No", zero |-> "Yes", infinite |-> "No", positive |-> "No", negative |-> "Yes"]

INF_POSSIBILITIES ==
    [nan |-> "No", zero |-> "No", infinite |-> "Yes", positive |-> "Yes", negative |-> "Yes"]

INF_NEG_POSSIBILITIES ==
    [nan |-> "No", zero |-> "No", infinite |-> "Yes", positive |-> "No", negative |-> "Yes"]

(***************************************************************************)
(* utils.rs: the width-tagged wrapper and the dispatch helpers             *)
(***************************************************************************)

\* enum FnArgFloat { F32(FloatPossibilities), F64(FloatPossibilities) }
FnArgFloat == [tag : {"F32", "F64"}, fp : FP]

NoReturn == [tag |-> "none"]

\* What a call yields: the value returned, or a panic, and whether the
\* closure `possibilities` was invoked on the way.
Returned(value) == [panicked |-> FALSE, ran |-> TRUE, value |-> value]
Panicked == [panicked |-> TRUE, ran |-> FALSE, value |-> NoReturn]
\* a function that takes no closure returns its value directly
Plain(value) == [panicked |-> FALSE, ran |-> FALSE, value |-> value]

\* variant: a width mismatch is coerced to the width of lhs
return_fp2_coerce(lhs, rhs, out) == Returned([tag |-> lhs.tag, fp |-> out])

\* variant: the F64 arm builds an F32 result
return_fp2_f32(lhs, rhs, out) ==
    IF lhs.tag = "F32" /\ rhs.tag = "F32" THEN Returned([tag |-> "F32", fp |-> out])
    ELSE IF lhs.tag = "F64" /\ rhs.tag = "F64" THEN Returned([tag |-> "F32", fp |-> out])
    ELSE Panicked

\* return_fp2(lhs, rhs, possibilities); `out` is what possibilities(fp1, fp2)
\* evaluates to in the arm that calls it.
return_fp2(lhs, rhs, out) ==
    IF lhs.tag = "F32" /\ rhs.tag = "F32" THEN Returned([tag |-> "F32", fp |-> out])
    ELSE IF lhs.tag = "F64" /\ rhs.tag = "F64" THEN Returned([tag |-> "F64", fp |-> out])
    ELSE Panicked

(***************************************************************************)
(* add.rs                                                                  *)
(***************************************************************************)

\* variant: the overflow record claims infinity outright
overflow_yes ==
    [nan |-> "No", zero |-> "No", infinite |-> "Yes", positive |-> "No", negative |-> "No"]

\* let overflow = FP { .. }
overflow ==
    [nan |-> "No", zero |-> "No", infinite |-> "ShouldNot", positive |-> "No", negative |-> "No"]

\* variant: without the final `res.zero = res.zero | opposite`
add_possibilities_no_zero(fp1, fp2) ==
    LET res0 == union(fp1, fp2)
        res1 == IF BitAnd(fp1.negative, fp2.negative) # "No" THEN union(res0, overflow) ELSE res0
        res2 == IF BitAnd(fp1.positive, fp2.positive) # "No" THEN union(res1, overflow) ELSE res1
        both_inf == BitAnd(fp1.infinite, fp2.infinite)
        opposite == BitOr(BitAnd(fp1.positive, fp2.negative), BitAnd(fp1.negative, fp2.positive))
    IN  [res2 EXCEPT !.nan = BitOr(res2.nan, BitAnd(both_inf, opposite))]

\* variant: without the positive-overflow clause
add_possibilities_no_positive_overflow(fp1, fp2) ==
    LET res0 == union(fp1, fp2)
        res1 == IF BitAnd(fp1.negative, fp2.negative) # "No" THEN union(res0, overflow) ELSE res0
        both_inf == BitAnd(fp1.infinite, fp2.infinite)
        opposite == BitOr(BitAnd(fp1.positive, fp2.negative), BitAnd(fp1.negative, fp2.positive))
        res3 == [res1 EXCEPT !.nan = BitOr(res1.nan, BitAnd(both_inf, opposite))]
    IN  [res3 EXCEPT !.zero = BitOr(res3.zero, opposite)]

\* variant: `opposite` needs both sign pairings at once (& for |)
add_possibilities_opposite_and(fp1, fp2) ==
    LET res0 == union(fp1, fp2)
        res1 == IF BitAnd(fp1.negative, fp2.negative) # "No" THEN union(res0, overflow) ELSE res0
        res2 == IF BitAnd(fp1.positive, fp2.positive) # "No" THEN union(res1, overflow) ELSE res1
        both_inf == BitAnd(fp1.infinite, fp2.infinite)
        opposite == BitAnd(BitAnd(fp1.positive, fp2.negative), BitAnd(fp1.negative, fp2.positive))
        res3 == [res2 EXCEPT !.nan = BitOr(res2.nan, BitAnd(both_inf, opposite))]
    IN  [res3 EXCEPT !.zero = BitOr(res3.zero, opposite)]

\* variant: `opposite` looks at one sign pairing only (positive1, negative2)
add_possibilities_one_pairing(fp1, fp2) ==
    LET res0 == union(fp1, fp2)
        res1 == IF BitAnd(fp1.negative, fp2.negative) # "No" THEN union(res0, overflow) ELSE res0
        res2 == IF BitAnd(fp1.positive, fp2.positive) # "No" THEN union(res1, overflow) ELSE res1
        both_inf == BitAnd(fp1.infinite, fp2.infinite)
        opposite == BitAnd(fp1.positive, fp2.negative)
        res3 == [res2 EXCEPT !.nan = BitOr(res2.nan, BitAnd(both_inf, opposite))]
    IN  [res3 EXCEPT !.zero = BitOr(res3.zero, opposite)]

\* variant: the final statement assigns `opposite` to zero instead of
\* joining it in
add_possibilities_zero_assigned(fp1, fp2) ==
    LET res0 == union(fp1, fp2)
        res1 == IF BitAnd(fp1.negative, fp2.negative) # "No" THEN union(res0, overflow) ELSE res0
        res2 == IF BitAnd(fp1.positive, fp2.positive) # "No" THEN union(res1, overflow) ELSE res1
        both_inf == BitAnd(fp1.infinite, fp2.infinite)
        opposite == BitOr(BitAnd(fp1.positive, fp2.negative), BitAnd(fp1.negative, fp2.positive))
        res3 == [res2 EXCEPT !.nan = BitOr(res2.nan, BitAnd(both_inf, opposite))]
    IN  [res3 EXCEPT !.zero = opposite]

\* the closure |fp1, fp2| { .. } of add
add_possibilities(fp1, fp2) ==
    LET res0 == union(fp1, fp2)
        res1 == IF BitAnd(fp1.negative, fp2.negative) # "No" THEN union(res0, overflow) ELSE res0
        res2 == IF BitAnd(fp1.positive, fp2.positive) # "No" THEN union(res1, overflow) ELSE res1
        both_inf == BitAnd(fp1.infinite, fp2.infinite)
        opposite == BitOr(BitAnd(fp1.positive, fp2.negative), BitAnd(fp1.negative, fp2.positive))
        res3 == [res2 EXCEPT !.nan = BitOr(res2.nan, BitAnd(both_inf, opposite))]
    IN  [res3 EXCEPT !.zero = BitOr(res3.zero, opposite)]

\* pub fn add(a, b)
add(a, b) == return_fp2(a, b, add_possibilities(a.fp, b.fp))

(***************************************************************************)
(* tests/core.rs: the concrete operations, by class of value.  Each gives  *)
(* the set of classes the IEEE-754 result can fall in for an argument of   *)
(* the class (overflow to infinity and underflow to zero included).        *)
(***************************************************************************)

\* |x, y| x + y
float_add(x, y) ==
    IF is_nan(x) \/ is_nan(y) THEN {"NaN"}
    ELSE IF is_infinite(x) /\ is_infinite(y) THEN (IF x = y THEN {x} ELSE {"NaN"})
    ELSE IF is_infinite(x) THEN {x}
    ELSE IF is_infinite(y) THEN {y}
    ELSE IF is_zero(x) /\ is_zero(y) THEN (IF x = y THEN {x} ELSE {"PosZero"})
    ELSE IF is_zero(x) THEN {y}
    ELSE IF is_zero(y) THEN {x}
    ELSE IF x = "PosFinite" /\ y = "PosFinite" THEN {"PosFinite", "PosInf"}
    ELSE IF x = "NegFinite" /\ y = "NegFinite" THEN {"NegFinite", "NegInf"}
    ELSE {"NegFinite", "PosZero", "PosFinite"}

\* -x: the sign bit flipped
flip(v) ==
    CASE v = "NaN" -> "NaN"
      [] v = "NegInf" -> "PosInf"
      [] v = "NegFinite" -> "PosFinite"
      [] v = "NegZero" -> "PosZero"
      [] v = "PosZero" -> "NegZero"
      [] v = "PosFinite" -> "NegFinite"
      [] v = "PosInf" -> "NegInf"

\* the result classes of an odd function, from those of its positive half
mirrored(v, S) == IF is_sign_negative(v) THEN {flip(r) : r \in S} ELSE S

\* |v| as a class
magnitude(v) == IF is_sign_negative(v) THEN flip(v) ELSE v

\* test_ops: |x| x.$op() for each operation, -x for neg, x.powi(2) for powi
float_op(name, v) ==
    IF is_nan(v) THEN {"NaN"}
    ELSE CASE name = "neg" -> {flip(v)}
      [] name = "abs" -> {magnitude(v)}
      [] name = "ceil" -> IF v = "NegFinite" THEN {"NegFinite", "NegZero"} ELSE {v}
      [] name = "floor" -> IF v = "PosFinite" THEN {"PosFinite", "PosZero"} ELSE {v}
      [] name \in {"round", "trunc"} ->
            mirrored(v, IF magnitude(v) = "PosFinite" THEN {"PosFinite", "PosZero"}
                        ELSE {magnitude(v)})
      \* self - self.trunc()
      [] name = "fract" ->
            IF is_infinite(v) THEN {"NaN"}
            ELSE IF is_zero(v) THEN {"PosZero"}
            ELSE {v, "PosZero"}
      [] name = "signum" -> IF is_sign_positive(v) THEN {"PosFinite"} ELSE {"NegFinite"}
      [] name = "sqrt" -> IF v \in {"NegInf", "NegFinite"} THEN {"NaN"} ELSE {v}
      [] name \in {"exp", "exp2"} ->
            (CASE v = "NegInf" -> {"PosZero"}
              [] v = "NegFinite" -> {"PosZero", "PosFinite"}
              [] is_zero(v) -> {"PosFinite"}
              [] v = "PosFinite" -> {"PosFinite", "PosInf"}
              [] v = "PosInf" -> {"PosInf"})
      [] name \in {"ln", "log2", "log10"} ->
            (CASE v \in {"NegInf", "NegFinite"} -> {"NaN"}
              [] is_zero(v) -> {"NegInf"}
              [] v = "PosFinite" -> {"NegFinite", "PosZero", "PosFinite"}
              [] v = "PosInf" -> {"PosInf"})
      \* self * (180 / PI): a large value overflows
      [] name = "to_degrees" ->
            mirrored(v, IF magnitude(v) = "PosFinite" THEN {"PosFinite", "PosInf"}
                        ELSE {magnitude(v)})
      \* self * (PI / 180): a small subnormal underflows
      [] name = "to_radians" ->
            mirrored(v, IF magnitude(v) = "PosFinite" THEN {"PosFinite", "PosZero"}
                        ELSE {magnitude(v)})
      [] name = "cbrt" -> {v}
      [] name \in {"sin", "tan"} ->
            IF is_infinite(v) THEN {"NaN"}
            ELSE IF is_zero(v) THEN {v}
            ELSE {"NegFinite", "PosFinite"}
      [] name = "cos" ->
            IF is_infinite(v) THEN {"NaN"}
            ELSE IF is_zero(v) THEN {"PosFinite"}
            ELSE {"NegFinite", "PosFinite"}
      [] name = "asin" ->
            IF is_infinite(v) THEN {"NaN"}
            ELSE IF is_zero(v) THEN {v}
            ELSE {v, "NaN"}
      [] name = "acos" ->
            (CASE is_infinite(v) -> {"NaN"}
              [] v = "NegFinite" -> {"PosFinite", "NaN"}
              [] is_zero(v) -> {"PosFinite"}
              [] v = "PosFinite" -> {"PosFinite", "PosZero", "NaN"})
      [] name = "atan" -> mirrored(v, IF magnitude(v) = "PosInf" THEN {"PosFinite"}
                                      ELSE {magnitude(v)})
      [] name = "exp_m1" ->
            (CASE v \in {"NegInf", "NegFinite"} -> {"NegFinite"}
              [] is_zero(v) -> {v}
              [] v = "PosFinite" -> {"PosFinite", "PosInf"}
              [] v = "PosInf" -> {"PosInf"})
      [] name = "ln_1p" ->
            (CASE v = "NegInf" -> {"NaN"}
              [] v = "NegFinite" -> {"NegFinite", "NegInf", "NaN"}
              [] is_zero(v) -> {v}
              [] v \in {"PosFinite", "PosInf"} -> {v})
      \* asinh overflows inside the standard library's formula for huge values
      [] name \in {"sinh", "asinh"} ->
            mirrored(v, IF magnitude(v) = "PosFinite" THEN {"PosFinite", "PosInf"}
                        ELSE {magnitude(v)})
      [] name = "cosh" ->
            IF is_infinite(v) THEN {"PosInf"}
            ELSE IF is_zero(v) THEN {"PosFinite"}
            ELSE {"PosFinite", "PosInf"}
      [] name = "tanh" -> mirrored(v, IF magnitude(v) = "PosInf" THEN {"PosFinite"}
                                      ELSE {magnitude(v)})
      [] name = "acosh" ->
            (CASE v = "PosInf" -> {"PosInf"}
              [] v = "PosFinite" -> {"NaN", "PosZero", "PosFinite", "PosInf"}
              [] OTHER -> {"NaN"})
      [] name = "atanh" ->
            mirrored(v, CASE magnitude(v) = "PosInf" -> {"NaN"}
                          [] magnitude(v) = "PosFinite" -> {"PosFinite", "PosInf", "NaN"}
                          [] OTHER -> {magnitude(v)})
      \* 1.0 / self: the reciprocal of a small subnormal overflows
      [] name = "recip" ->
            mirrored(v, CASE magnitude(v) = "PosInf" -> {"PosZero"}
                          [] magnitude(v) = "PosFinite" -> {"PosFinite", "PosInf"}
                          [] OTHER -> {"PosInf"})
      \* x.powi(2)
      [] name = "powi" ->
            (CASE is_infinite(v) -> {"PosInf"}
              [] is_zero(v) -> {"PosZero"}
              [] OTHER -> {"PosFinite", "PosZero", "PosInf"})

(***************************************************************************)
(* lib.rs: Possible, Range and the range-based FloatPossibilities          *)
(***************************************************************************)

\* enum Range { Full, Negative, Positive }
Range == {"Full", "Negative", "Positive"}

\* impl From<Possible> for u8
u8_from(val) ==
    CASE val = "No" -> 0
      [] val = "ShouldNot" -> 1
      [] val = "Should" -> 2
      [] val = "Yes" -> 3

\* impl Ord for Possible: cmp, as "Less" | "Equal" | "Greater"
cmp(self, other) ==
    IF u8_from(self) < u8_from(other) THEN "Less"
    ELSE IF u8_from(self) = u8_from(other) THEN "Equal"
    ELSE "Greater"

\* lib.rs Possible::any: std::cmp::max(a, b), b unless a compares Greater
lib_any(a, b) == IF cmp(a, b) = "Greater" THEN a ELSE b

\* Range::opposite
opposite(self) ==
    CASE self = "Full" -> "Full"
      [] self = "Negative" -> "Positive"
      [] self = "Positive" -> "Negative"

\* Range::can_be_positive
can_be_positive(self) == IF self \in {"Full", "Positive"} THEN "Yes" ELSE "No"

\* Range::can_be_negative
can_be_negative(self) == IF self \in {"Full", "Negative"} THEN "Yes" ELSE "No"

lib_FP == [nan : Possible, zero : Possible, infinite : Possible, range : Range]

\* lib.rs FloatPossibilities::accept
lib_accept(self, value) ==
    IF is_nan(value) THEN self.nan # "No"
    ELSE IF is_infinite(value) /\ self.infinite = "No" THEN FALSE
    ELSE IF is_zero(value) /\ self.zero = "No" THEN FALSE
    ELSE IF is_sign_positive(value) /\ can_be_positive(self.range) = "No" THEN FALSE
    ELSE IF is_sign_negative(value) /\ can_be_negative(self.range) = "No" THEN FALSE
    ELSE TRUE

\* enum FnArg { F32(FloatPossibilities), F64(FloatPossibilities) }
FnArg == [tag : {"F32", "F64"}, fp : lib_FP]

\* macro return_possibilities!; `out` is what possibilities(lhs) evaluates to
return_possibilities(lhs, out) ==
    CASE lhs.tag = "F32" -> [tag |-> "F32", fp |-> out]
      [] lhs.tag = "F64" -> [tag |-> "F64", fp |-> out]

(***************************************************************************)
(* lib.rs: core::ops                                                       *)
(***************************************************************************)

neg(lhs) == return_possibilities(lhs, [lhs.fp EXCEPT !.range = opposite(lhs.fp.range)])

abs(lhs) == return_possibilities(lhs, [lhs.fp EXCEPT !.range = "Positive"])

ceil(lhs) ==
    return_possibilities(lhs,
        [lhs.fp EXCEPT !.zero = lib_any(lhs.fp.zero, can_be_negative(lhs.fp.range))])

floor(lhs) ==
    return_possibilities(lhs,
        [lhs.fp EXCEPT !.zero = lib_any(lhs.fp.zero, can_be_positive(lhs.fp.range))])

round(lhs) == return_possibilities(lhs, [lhs.fp EXCEPT !.zero = "Yes"])

trunc(lhs) == return_possibilities(lhs, [lhs.fp EXCEPT !.zero = "Yes"])

fract(lhs) ==
    return_possibilities(lhs,
        [zero     |-> "Yes",
         nan      |-> lib_any(lhs.fp.nan, lhs.fp.infinite),
         range    |-> IF can_be_negative(lhs.fp.range) = "Yes" THEN "Full" ELSE "Positive",
         infinite |-> lhs.fp.infinite])

signum(lhs) ==
    return_possibilities(lhs,
        [zero |-> "No", infinite |-> "No", range |-> lhs.fp.range, nan |-> lhs.fp.nan])

sqrt(lhs) ==
    return_possibilities(lhs,
        [lhs.fp EXCEPT !.nan = lib_any(lhs.fp.nan, can_be_negative(lhs.fp.range))])

exp(lhs) ==
    return_possibilities(lhs,
        [range    |-> "Positive",
         zero     |-> can_be_negative(lhs.fp.range),
         infinite |-> can_be_positive(lhs.fp.range),
         nan      |-> lhs.fp.nan])

exp2(lhs) == exp(lhs)

ln(lhs) ==
    return_possibilities(lhs,
        [range    |-> "Full",
         zero     |-> can_be_positive(lhs.fp.range),
         infinite |-> lib_any(lhs.fp.infinite, lhs.fp.zero),
         nan      |-> lib_any(lhs.fp.nan, can_be_negative(lhs.fp.range))])

log2(lhs) == ln(lhs)

log10(lhs) == ln(lhs)

to_degrees(lhs) == return_possibilities(lhs, [lhs.fp EXCEPT !.infinite = "Yes"])

to_radians(lhs) == lhs

cbrt(lhs) == lhs

sin(lhs) ==
    return_possibilities(lhs,
        [range    |-> "Full",
         zero     |-> "Yes",
         infinite |-> "No",
         nan      |-> lib_any(lhs.fp.nan, lhs.fp.infinite)])

cos(lhs) == sin(lhs)

tan(lhs) ==
    return_possibilities(lhs,
        [range    |-> "Full",
         zero     |-> "Yes",
         infinite |-> "Yes",
         nan      |-> lib_any(lhs.fp.nan, lhs.fp.infinite)])

asin(lhs) ==
    return_possibilities(lhs,
        [range |-> lhs.fp.range, zero |-> lhs.fp.zero, infinite |-> "No", nan |-> "Yes"])

acos(lhs) ==
    return_possibilities(lhs,
        [range |-> "Positive", zero |-> "Yes", infinite |-> "No", nan |-> "Yes"])

atan(lhs) == return_possibilities(lhs, [lhs.fp EXCEPT !.infinite = "No"])

exp_m1(lhs) ==
    return_possibilities(lhs, [lhs.fp EXCEPT !.infinite = can_be_positive(lhs.fp.range)])

ln_1p(lhs) ==
    return_possibilities(lhs,
        [lhs.fp EXCEPT !.nan = lib_any(lhs.fp.nan, can_be_negative(lhs.fp.range)),
                       !.infinite = lib_any(lhs.fp.infinite, can_be_negative(lhs.fp.range))])

sinh(lhs) == return_possibilities(lhs, [lhs.fp EXCEPT !.infinite = "Yes"])

\* variant: cosh given the body of sinh
cosh_as_sinh(lhs) == return_possibilities(lhs, [lhs.fp EXCEPT !.infinite = "Yes"])

cosh(lhs) ==
    return_possibilities(lhs,
        [range |-> "Positive", zero |-> "No", infinite |-> "Yes", nan |-> lhs.fp.nan])

tanh(lhs) == return_possibilities(lhs, [lhs.fp EXCEPT !.infinite = "No"])

asinh(lhs) == return_possibilities(lhs, [lhs.fp EXCEPT !.infinite = "Yes"])

acosh(lhs) ==
    return_possibilities(lhs,
        [range |-> "Positive", zero |-> "Yes", infinite |-> "Yes", nan |-> "Yes"])

atanh(lhs) ==
    return_possibilities(lhs,
        [range |-> lhs.fp.range, zero |-> lhs.fp.zero, infinite |-> "Yes", nan |-> "Yes"])

recip(lhs) ==
    return_possibilities(lhs,
        [range    |-> lhs.fp.range,
         zero     |-> lhs.fp.infinite,
         infinite |-> lhs.fp.zero,
         nan      |-> lhs.fp.nan])

powi(lhs) ==
    return_possibilities(lhs,
        [range    |-> IF can_be_negative(lhs.fp.range) = "Yes" THEN "Full" ELSE "Positive",
         zero     |-> "Yes",
         infinite |-> "Yes",
         nan      |-> lhs.fp.nan])

(***************************************************************************)
(* The calls                                                               *)
(***************************************************************************)

\* the call returns or panics; nothing else changes
Finish(name, result) ==
    /\ op' = name
    /\ pc' = IF result.panicked THEN "panicked" ELSE "done"
    /\ ret' = result.value
    /\ ran' = result.ran
    /\ UNCHANGED args

\* core::ops::add(x, y)
Add ==
    /\ pc = "call"
    /\ Len(args) = 2
    /\ Finish("add", add(args[1], args[2]))

\* a call of a unary transfer function of core::ops on the one argument
Call1(name, value) ==
    /\ pc = "call"
    /\ Len(args) = 1
    /\ Finish(name, Returned(value))

Neg == Call1("neg", neg(args[1]))
Abs == Call1("abs", abs(args[1]))
Ceil == Call1("ceil", ceil(args[1]))
Floor == Call1("floor", floor(args[1]))
Round == Call1("round", round(args[1]))
Trunc == Call1("trunc", trunc(args[1]))
Fract == Call1("fract", fract(args[1]))
Signum == Call1("signum", signum(args[1]))
Sqrt == Call1("sqrt", sqrt(args[1]))
Exp == Call1("exp", exp(args[1]))
Exp2 == Call1("exp2", exp2(args[1]))
Ln == Call1("ln", ln(args[1]))
Log2 == Call1("log2", log2(args[1]))
Log10 == Call1("log10", log10(args[1]))
ToDegrees == Call1("to_degrees", to_degrees(args[1]))
ToRadians == pc = "call" /\ Len(args) = 1 /\ Finish("to_radians", Plain(to_radians(args[1])))
Cbrt == pc = "call" /\ Len(args) = 1 /\ Finish("cbrt", Plain(cbrt(args[1])))
Sin == Call1("sin", sin(args[1]))
Cos == Call1("cos", cos(args[1]))
Tan == Call1("tan", tan(args[1]))
Asin == Call1("asin", asin(args[1]))
Acos == Call1("acos", acos(args[1]))
Atan == Call1("atan", atan(args[1]))
ExpM1 == Call1("exp_m1", exp_m1(args[1]))
Ln1p == Call1("ln_1p", ln_1p(args[1]))
Sinh == Call1("sinh", sinh(args[1]))
Cosh == Call1("cosh", cosh(args[1]))
Tanh == Call1("tanh", tanh(args[1]))
Asinh == Call1("asinh", asinh(args[1]))
Acosh == Call1("acosh", acosh(args[1]))
Atanh == Call1("atanh", atanh(args[1]))
Recip == Call1("recip", recip(args[1]))
Powi == Call1("powi", powi(args[1]))

NextOps ==
    \/ Neg \/ Abs \/ Ceil \/ Floor \/ Round \/ Trunc \/ Fract \/ Signum \/ Sqrt
    \/ Exp \/ Exp2 \/ Ln \/ Log2 \/ Log10 \/ ToDegrees \/ ToRadians \/ Cbrt
    \/ Sin \/ Cos \/ Tan \/ Asin \/ Acos \/ Atan \/ ExpM1 \/ Ln1p
    \/ Sinh \/ Cosh \/ Tanh \/ Asinh \/ Acosh \/ Atanh \/ Recip \/ Powi

\* utils.rs Possible::any(a, b)
Any == pc = "call" /\ Finish("any", Plain(any(args[1], args[2])))

\* lib.rs Possible::any(a, b)
LibAny == pc = "call" /\ Finish("lib_any", Plain(lib_any(args[1], args[2])))

\* a | b
Or == pc = "call" /\ Finish("bitor", Plain(BitOr(args[1], args[2])))

\* a & b
And == pc = "call" /\ Finish("bitand", Plain(BitAnd(args[1], args[2])))

\* fp1.union(&fp2)
Union == pc = "call" /\ Finish("union", Plain(union(args[1], args[2])))

\* utils.rs fp.accept(value), on a five-field record
Accept ==
    /\ pc = "call"
    /\ "positive" \in DOMAIN args[1]
    /\ Finish("accept", Plain(accept(args[1], args[2])))

\* lib.rs fp.accept(value), on a range-based record
LibAccept ==
    /\ pc = "call"
    /\ "range" \in DOMAIN args[1]
    /\ Finish("lib_accept", Plain(lib_accept(args[1], args[2])))

\* before a call: nothing returned, no closure run
Fresh ==
    /\ pc = "call"
    /\ op = ""
    /\ ret = NoReturn
    /\ ran = FALSE

\* the caller holds two width-tagged five-field records, of any two widths
InitAdd == Fresh /\ args \in FnArgFloat \X FnArgFloat

\* the caller holds two five-field records of one width
InitSameWidth ==
    /\ Fresh
    /\ \E tag \in {"F32", "F64"} :
          args \in [tag : {tag}, fp : FP] \X [tag : {tag}, fp : FP]

\* the caller holds one width-tagged range-based record
InitOps == Fresh /\ args \in {<<x>> : x \in FnArg}

(***************************************************************************)
(* Specifications                                                          *)
(***************************************************************************)

\* every transfer function, on every well-formed (matching-width) argument
Init == InitSameWidth \/ InitOps

Next == Add \/ NextOps

Spec == Init /\ [][Next]_vars

\* the unary transfer functions alone
SpecOps == InitOps /\ [][NextOps]_vars

\* add on every pair of width-tagged records, matching widths or not
NextDispatch == Add

SpecDispatch == InitAdd /\ [][NextDispatch]_vars

\* the lattice operations on every pair of Possible values; the third value
\* is the further operand of a chained call
InitPossible == Fresh /\ args \in Possible \X Possible \X Possible

NextPossible == Any \/ LibAny \/ Or \/ And

SpecPossible == InitPossible /\ [][NextPossible]_vars

\* union on every pair of five-field records
InitUnion == Fresh /\ args \in FP \X FP

NextUnion == Union

SpecUnion == InitUnion /\ [][NextUnion]_vars

\* the membership test of every record of either kind on every class of value
InitAccept == Fresh /\ args \in (FP \X Values) \cup (lib_FP \X Values)

NextAccept == Accept \/ LibAccept

SpecAccept == InitAccept /\ [][NextAccept]_vars

\* add on every pair of F64 records, and on every pair of F32 records the
\* test suite builds
InitWiden ==
    /\ Fresh
    /\ \/ args \in [tag : {"F64"}, fp : FP] \X [tag : {"F64"}, fp : FP]
       \/ args \in [tag : {"F32"}, fp : get_possibilities]
                      \X [tag : {"F32"}, fp : get_possibilities]

NextWiden == Add

SpecWiden == InitWiden /\ [][NextWiden]_vars

(***************************************************************************)
(* Properties                                                              *)
(***************************************************************************)

\* the classes of value a five-field record accepts
Accepted(fp) == {v \in Values : accept(fp, v)}

\* the classes of value a range-based record accepts
LibAccepted(fp) == {v \in Values : lib_accept(fp, v)}

AddReturned == pc = "done" /\ op = "add"

\* C1: add is sound.  Whenever add returns, for every pair of values v1, v2
\* that the two argument records accept, the returned record accepts every
\* class the floating-point sum v1 + v2 can fall in.
C1_AddSound ==
    AddReturned =>
        LET R == Accepted(ret.fp)
            A2 == Accepted(args[2].fp)
        IN  \A v1 \in Accepted(args[1].fp) : \A v2 \in A2 : float_add(v1, v2) \subseteq R

\* add has returned for a positive-finite-only and a negative-finite-only
\* operand, neither admitting zero, and the result admits the zero their sum
\* can cancel to
C1_Witness ==
    /\ AddReturned
    /\ args[1].fp = [nan |-> "No", zero |-> "No", infinite |-> "No",
                     positive |-> "Yes", negative |-> "No"]
    /\ args[2].fp = [nan |-> "No", zero |-> "No", infinite |-> "No",
                     positive |-> "No", negative |-> "Yes"]
    /\ "PosFinite" \in Accepted(args[1].fp)
    /\ "NegFinite" \in Accepted(args[2].fp)
    /\ "PosZero" \in float_add("PosFinite", "NegFinite")
    /\ accept(ret.fp, "PosZero")

UnaryReturned == pc = "done" /\ Len(args) = 1 /\ "range" \in DOMAIN args[1].fp

\* C2: every unary transfer function is sound.  Whenever one returns, for
\* every value class v its argument record accepts, the returned record
\* accepts every class the concrete operation can produce from v.
C2_UnarySound ==
    UnaryReturned =>
        LET R == LibAccepted(ret.fp)
        IN  \A v \in LibAccepted(args[1].fp) : float_op(op, v) \subseteq R

\* C3: add on an F32 and an F64 record, in either order, panics: it returns
\* no record and the field-computation closure has not run.
C3_MismatchPanics ==
    (pc # "call" /\ op = "add" /\ args[1].tag # args[2].tag) =>
        (pc = "panicked" /\ ret = NoReturn /\ ran = FALSE)

\* add has panicked on an F32 and an F64 record whose fields would otherwise
\* have triggered the opposite-infinities clause
C3_Witness ==
    /\ pc = "panicked"
    /\ op = "add"
    /\ args[1].tag = "F32"
    /\ args[2].tag = "F64"
    /\ args[1].fp = INF_POSSIBILITIES
    /\ args[2].fp = INF_NEG_POSSIBILITIES
    /\ ran = FALSE

\* C4: width preservation.  Every call on well-formed input returns (it
\* never panics), and the record returned carries the width tag of the
\* argument, for add the tag both arguments share.
C4_WidthPreserved ==
    pc # "call" =>
        /\ pc = "done"
        /\ ret.tag \in {"F32", "F64"}
        /\ \A i \in 1..Len(args) : ret.tag = args[i].tag

\* add has returned an F64 record for two F64 records
C4_Witness ==
    /\ AddReturned
    /\ args[1].tag = "F64"
    /\ args[2].tag = "F64"
    /\ ret.tag = "F64"

\* the order No < ShouldNot < Should < Yes
Order == <<"No", "ShouldNot", "Should", "Yes">>
Rank(p) == CHOOSE i \in DOMAIN Order : Order[i] = p
Greater(a, b) == IF Rank(a) >= Rank(b) THEN a ELSE b
Lesser(a, b) == IF Rank(a) <= Rank(b) THEN a ELSE b

\* the lattice operation that was called, as an operator
Called(x, y) ==
    CASE op = "any" -> any(x, y)
      [] op = "lib_any" -> lib_any(x, y)
      [] op = "bitor" -> BitOr(x, y)
      [] op = "bitand" -> BitAnd(x, y)

\* C5: any(a, b) and a | b return the greater, a & b the lesser of a and b
\* under No < ShouldNot < Should < Yes; each is commutative, associative and
\* idempotent; any(No, No) = No and any(Yes, x) = Yes.
C5_Lattice ==
    (pc = "done" /\ op \in {"any", "lib_any", "bitor", "bitand"}) =>
        LET a == args[1]
            b == args[2]
            c == args[3]
        IN  /\ op # "bitand" => ret = Greater(a, b)
            /\ op = "bitand" => ret = Lesser(a, b)
            /\ ret = Called(b, a)
            /\ Called(ret, c) = Called(a, Called(b, c))
            /\ a = b => ret = a
            /\ (op # "bitand" /\ a = "No" /\ b = "No") => ret = "No"
            /\ (op # "bitand" /\ "Yes" \in {a, b}) => ret = "Yes"

\* Should & ShouldNot has returned ShouldNot
C5_Witness ==
    /\ pc = "done"
    /\ op = "bitand"
    /\ args[1] = "Should"
    /\ args[2] = "ShouldNot"
    /\ ret = "ShouldNot"

\* the third operands of the associativity check: the named records of
\* utils.rs and the overflow record of add
ThirdRecords ==
    {ZERO_POSSIBILITIES, ZERO_NEG_POSSIBILITIES, INF_POSSIBILITIES,
     INF_NEG_POSSIBILITIES, overflow}

\* C6: union returns the field-wise join of its operands (each field the
\* greater of the two), and is commutative, associative and idempotent.
C6_Union ==
    (pc = "done" /\ op = "union") =>
        LET a == args[1]
            b == args[2]
        IN  /\ \A f \in {"nan", "zero", "infinite", "positive", "negative"} :
                  ret[f] = Greater(a[f], b[f])
            /\ ret = union(b, a)
            /\ a = b => ret = a
            /\ \A c \in ThirdRecords : union(ret, c) = union(a, union(b, c))

\* the union of the +0 record and the -infinity record has been returned
C6_Witness ==
    /\ pc = "done"
    /\ op = "union"
    /\ args[1] = ZERO_POSSIBILITIES
    /\ args[2] = INF_NEG_POSSIBILITIES
    /\ ret = [nan |-> "No", zero |-> "Yes", infinite |-> "Yes",
              positive |-> "Yes", negative |-> "Yes"]

\* C7: accept(value).  A NaN is permitted iff nan # No, whatever the other
\* fields; any other value is permitted iff it is not rejected for being
\* infinite with infinite = No, zero with zero = No, of positive sign with
\* positive = No, or of negative sign with negative = No.
C7_Accept ==
    (pc = "done" /\ op \in {"accept", "lib_accept"}) =>
        LET fp == args[1]
            v == args[2]
            positive == IF op = "accept" THEN fp.positive ELSE can_be_positive(fp.range)
            negative == IF op = "accept" THEN fp.negative ELSE can_be_negative(fp.range)
            rejected ==
                \/ v \in {"NegInf", "PosInf"} /\ fp.infinite = "No"
                \/ v \in {"NegZero", "PosZero"} /\ fp.zero = "No"
                \/ v \in {"PosZero", "PosFinite", "PosInf"} /\ positive = "No"
                \/ v \in {"NegZero", "NegFinite", "NegInf"} /\ negative = "No"
        IN  ret = IF v = "NaN" THEN fp.nan # "No" ELSE ~rejected

\* a NaN has been accepted by a record with nan = ShouldNot and both sign
\* fields No
C7_Witness ==
    /\ pc = "done"
    /\ op = "accept"
    /\ args[2] = "NaN"
    /\ args[1].nan = "ShouldNot"
    /\ args[1].positive = "No"
    /\ args[1].negative = "No"
    /\ ret = TRUE

\* C8: overflow clauses of add.  When the meet of the operands' positive
\* fields, or the meet of their negative fields, is not No, the result's
\* infinite field is not No.
C8_Overflow ==
    (/\ AddReturned
     /\ \/ Lesser(args[1].fp.positive, args[2].fp.positive) # "No"
        \/ Lesser(args[1].fp.negative, args[2].fp.negative) # "No")
    => ret.fp.infinite # "No"

\* add has returned for two identical records with positive = Yes,
\* negative = No, infinite = No, and the result admits infinity
C8_Witness ==
    /\ AddReturned
    /\ args[1].fp = [nan |-> "No", zero |-> "No", infinite |-> "No",
                     positive |-> "Yes", negative |-> "No"]
    /\ args[2].fp = args[1].fp
    /\ ret.fp.infinite # "No"

\* C9: opposite-infinities clause of add.  When the meet of the operands'
\* infinite fields is not No and (positive1 & negative2) | (negative1 &
\* positive2) is not No, the result has nan # No and zero # No.
C9_OppositeInfinities ==
    (/\ AddReturned
     /\ Lesser(args[1].fp.infinite, args[2].fp.infinite) # "No"
     /\ Greater(Lesser(args[1].fp.positive, args[2].fp.negative),
                Lesser(args[1].fp.negative, args[2].fp.positive)) # "No")
    => (ret.fp.nan # "No" /\ ret.fp.zero # "No")

\* add has returned for a +infinity record and a -infinity record that both
\* have nan = No and zero = No, and the result admits NaN and zero
C9_Witness ==
    /\ AddReturned
    /\ args[1].fp = [nan |-> "No", zero |-> "No", infinite |-> "Yes",
                     positive |-> "Yes", negative |-> "No"]
    /\ args[2].fp = INF_NEG_POSSIBILITIES
    /\ ret.fp.nan # "No"
    /\ ret.fp.zero # "No"

\* the fields cosh and acosh share according to the table: infinite = Yes,
\* can be positive, cannot be negative
CoshShape ==
    /\ ret.fp.infinite = "Yes"
    /\ can_be_positive(ret.fp.range) = "Yes"
    /\ can_be_negative(ret.fp.range) = "No"

\* C10 as stated: cosh and acosh both return zero = Yes, infinite = Yes,
\* can-be-positive = Yes, can-be-negative = No; cosh leaves nan unchanged
\* and acosh sets nan = Yes.
C10_AsStated ==
    (UnaryReturned /\ op \in {"cosh", "acosh"}) =>
        /\ ret.fp.zero = "Yes"
        /\ CoshShape
        /\ op = "cosh" => ret.fp.nan = args[1].fp.nan
        /\ op = "acosh" => ret.fp.nan = "Yes"

\* C10 amended: as stated, except that cosh returns zero = No for every
\* input (acosh returns zero = Yes).
C10_CoshAcosh ==
    (UnaryReturned /\ op \in {"cosh", "acosh"}) =>
        /\ op = "cosh" => ret.fp.zero = "No"
        /\ op = "acosh" => ret.fp.zero = "Yes"
        /\ CoshShape
        /\ op = "cosh" => ret.fp.nan = args[1].fp.nan
        /\ op = "acosh" => ret.fp.nan = "Yes"

\* cosh has returned zero = No for a record with zero = Yes, nan = Should
\* and a negative range
C10_Witness ==
    /\ UnaryReturned
    /\ op = "cosh"
    /\ args[1].fp = [nan |-> "Should", zero |-> "Yes", infinite |-> "No",
                     range |-> "Negative"]
    /\ ret.fp = [nan |-> "Should", zero |-> "No", infinite |-> "Yes",
                 range |-> "Positive"]

\* to_radians or cbrt has returned
PassthroughReturned == UnaryReturned /\ op \in {"to_radians", "cbrt"}

\* the record returned is the argument itself: same tag, every field unchanged
Passthrough == ret = args[1]

\* C11: to_radians and cbrt are identity passthroughs.  Whenever either
\* returns, the output equals the input exactly (same tag, all fields
\* unchanged), and the output accepts every class the concrete operation can
\* produce from a value the input accepts: no NaN, zero, infinity or sign the
\* input record did not already admit.
C11_Passthrough ==
    PassthroughReturned =>
        /\ Passthrough
        /\ \A v \in LibAccepted(args[1].fp) :
              \A r \in float_op(op, v) : lib_accept(ret.fp, r)

\* an overflow clause of add applies: both operands possibly positive, or
\* both possibly negative
OverflowApplies ==
    \/ Lesser(args[1].fp.positive, args[2].fp.positive) # "No"
    \/ Lesser(args[1].fp.negative, args[2].fp.negative) # "No"

\* (positive1 & negative2) | (negative1 & positive2) of the operands
OppositeSigns ==
    Greater(Lesser(args[1].fp.positive, args[2].fp.negative),
            Lesser(args[1].fp.negative, args[2].fp.positive))

\* C12: exact overflow tier in add.  The result's infinite field is
\* max(infinite1, infinite2, ShouldNot) when an overflow clause applies and
\* max(infinite1, infinite2) when none does; with both inputs at
\* infinite = No and a clause applying it is exactly ShouldNot.  The overflow
\* record adds nothing to the other fields: positive and negative are the
\* join of the operands' fields, nan and zero the join raised only by the
\* opposite-infinities and cancellation clauses.
C12_OverflowTier ==
    AddReturned =>
        LET fp1 == args[1].fp
            fp2 == args[2].fp
            joined == Greater(fp1.infinite, fp2.infinite)
        IN  /\ OverflowApplies => ret.fp.infinite = Greater(joined, "ShouldNot")
            /\ ~OverflowApplies => ret.fp.infinite = joined
            /\ (OverflowApplies /\ fp1.infinite = "No" /\ fp2.infinite = "No")
                  => ret.fp.infinite = "ShouldNot"
            /\ ret.fp.positive = Greater(fp1.positive, fp2.positive)
            /\ ret.fp.negative = Greater(fp1.negative, fp2.negative)
            /\ ret.fp.nan = Greater(Greater(fp1.nan, fp2.nan),
                                    Lesser(Lesser(fp1.infinite, fp2.infinite), OppositeSigns))
            /\ ret.fp.zero = Greater(Greater(fp1.zero, fp2.zero), OppositeSigns)

\* add has returned infinite = ShouldNot, every other field the plain join,
\* for two possibly positive, never negative records with infinite = No
C12_Witness ==
    /\ AddReturned
    /\ OverflowApplies
    /\ args[1].fp = [nan |-> "No", zero |-> "No", infinite |-> "No",
                     positive |-> "Yes", negative |-> "No"]
    /\ args[2].fp = [nan |-> "No", zero |-> "Yes", infinite |-> "No",
                     positive |-> "Should", negative |-> "No"]
    /\ ret.fp = [nan |-> "No", zero |-> "Yes", infinite |-> "ShouldNot",
                 positive |-> "Yes", negative |-> "No"]

\* the fields of a five-field record
Fields == {"nan", "zero", "infinite", "positive", "negative"}

\* C13: add is commutative on same-width operands.  Whenever add(a, b)
\* returns for two records of one width, add(b, a) returns too, with the same
\* tag and field-for-field the same record.
C13_AddCommutes ==
    (AddReturned /\ args[1].tag = args[2].tag) =>
        LET swapped == add(args[2], args[1])
        IN  /\ ~swapped.panicked
            /\ swapped.value.tag = ret.tag
            /\ \A f \in Fields : swapped.value.fp[f] = ret.fp[f]

\* add has returned for a +0 record and a -infinity record with
\* nan = ShouldNot, two different operands, and add of the two in the other
\* order gives the record returned
C13_Witness ==
    /\ AddReturned
    /\ args[1].tag = "F32"
    /\ args[2].tag = "F32"
    /\ args[1].fp = ZERO_POSSIBILITIES
    /\ args[2].fp = [INF_NEG_POSSIBILITIES EXCEPT !.nan = "ShouldNot"]
    /\ args[1] # args[2]
    /\ ret.fp = [nan |-> "ShouldNot", zero |-> "Yes", infinite |-> "Yes",
                 positive |-> "Yes", negative |-> "Yes"]
    /\ add(args[2], args[1]) = Returned(ret)

\* p <= q under No < ShouldNot < Should < Yes
Leq(p, q) == p = q \/ p = "No" \/ q = "Yes" \/ (p = "ShouldNot" /\ q = "Should")

\* x <= y field-wise
FieldwiseLeq(x, y) == \A f \in Fields : Leq(x[f], y[f])

\* the next tier up
Up(p) ==
    CASE p = "No" -> "ShouldNot"
      [] p = "ShouldNot" -> "Should"
      [] p = "Should" -> "Yes"

\* the Yes/No records that widen fp
Above(fp) == {x \in get_possibilities : FieldwiseLeq(fp, x)}

\* C14: add is extensive and monotone.  Whenever add(a, b) returns:
\*  - every field of the result is at least the corresponding field of a and
\*    of b;
\*  - raising any one field of either operand by one tier gives a result
\*    that is field-wise at least the one returned (every a2 >= a, b2 >= b is
\*    reached from (a, b) by a chain of such steps, so this is monotonicity
\*    on all records);
\*  - for Yes/No operands and every pair of Yes/No records a2 >= a, b2 >= b,
\*    add(a2, b2) returns, field-wise at least the result, and accepts every
\*    class of value the result accepts.
C14_ExtensiveMonotone ==
    AddReturned =>
        LET a == args[1].fp
            b == args[2].fp
            r == ret.fp
        IN  /\ FieldwiseLeq(a, r)
            /\ FieldwiseLeq(b, r)
            /\ \A f \in Fields :
                  /\ a[f] # "Yes" =>
                        FieldwiseLeq(r, add_possibilities([a EXCEPT ![f] = Up(a[f])], b))
                  /\ b[f] # "Yes" =>
                        FieldwiseLeq(r, add_possibilities(a, [b EXCEPT ![f] = Up(b[f])]))
            /\ (a \in get_possibilities /\ b \in get_possibilities) =>
                  \A a2 \in Above(a) : \A b2 \in Above(b) :
                      LET wide == add([args[1] EXCEPT !.fp = a2], [args[2] EXCEPT !.fp = b2])
                      IN  /\ ~wide.panicked
                          /\ FieldwiseLeq(r, wide.value.fp)
                          /\ \A v \in Values : accept(r, v) => accept(wide.value.fp, v)

\* add has returned for a never-negative and a never-positive finite Yes/No
\* record.  Raising the first operand's negative field from No to ShouldNot
\* turns the negative overflow clause on, and widening it to negative = Yes
\* too; both wider results are strictly above the one returned.
C14_Witness ==
    /\ AddReturned
    /\ args[1].fp = [nan |-> "No", zero |-> "No", infinite |-> "No",
                     positive |-> "Yes", negative |-> "No"]
    /\ args[2].fp = [nan |-> "No", zero |-> "No", infinite |-> "No",
                     positive |-> "No", negative |-> "Yes"]
    /\ ret.fp = [nan |-> "No", zero |-> "Yes", infinite |-> "No",
                 positive |-> "Yes", negative |-> "Yes"]
    /\ LET a1 == [args[1].fp EXCEPT !.negative = Up("No")]
           a2 == [args[1].fp EXCEPT !.negative = "Yes"]
       IN  /\ add_possibilities(a1, args[2].fp).infinite = "ShouldNot"
           /\ FieldwiseLeq(ret.fp, add_possibilities(a1, args[2].fp))
           /\ a2 \in Above(args[1].fp)
           /\ add_possibilities(a2, args[2].fp) # ret.fp
           /\ FieldwiseLeq(ret.fp, add_possibilities(a2, args[2].fp))

====
